---- MODULE Spec2Model ----
(***************************************************************************)
(* Double-entry reconciliation engine of financial_planning:               *)
(*   merge/commbank_tools.py          EnhancedDoubleEntryAccountingSystem  *)
(*   merge/financial_planning/transaction_processor.py TransactionProcessor*)
(*                                                                         *)
(* Money is held in half-cents (1 unit = 0.005), so that 200.00 = 40000,   *)
(* 45.00 = 9000 and the 0.01 tolerance of the code is 2 units.  Python     *)
(* floats are modelled as these exact numbers.                             *)
(* A datetime is a day number (days since 2023-01-01, all at midnight).    *)
(***************************************************************************)
EXTENDS Integers, Sequences, FiniteSets, TLC

VARIABLES
  accounts,                \* self.accounts: the keys of the registry
  raw_transactions,        \* self.raw_transactions
  processed_transactions,  \* self.processed_transactions (the journal)
  unified_transactions,    \* self.unified_transactions (records + snapshots)
  account_balances,        \* self.account_balances
  pc,                      \* position in the batch pipeline
  sorted_transactions,     \* local of the running loop: indices, in sort order
  cursor,                  \* position of the running loop in sorted_transactions
  verified,                \* last value returned by verify_double_entry_accounting()
  journal_log,             \* history: for each journal record, the raw index it
                           \* was built from and the raw index it consumed (0: none)
  rows_arg,                \* rows handed in from outside: the argument of
                           \* verify_double_entry_accounting(transactions), or the
                           \* rows read off the CSV file being loaded
  rows_result,             \* its return value
  first_run,               \* history: journal and balances of the previous pipeline run
  today,                   \* the day of the latest datetime.now() call
  up_bank_transactions,    \* the list prepare_for_up_bank_api returned
  match_call,              \* a direct call of find_matching_transfer: the pool index
                           \* of its transaction and of the one it returned (0: None)
  transactions_file,       \* up/transaction_sync.py: transactions.json
  all_transactions_file,   \* all_transactions.json, the all-time history
  sync_state_file,         \* sync_state.json: last_synced (0: None)
  accounts_file,           \* accounts.json
  enriched_transactions_file,      \* enriched_transactions.json, and whether it exists
  enriched_all_transactions_file,  \* enriched_all_transactions.json
  run_sync_returned,       \* "True" right after a run_sync that returned True
  our_transactions,        \* merge/commbank_to_up_json.py: argument of merge_transactions
  upbank_transactions,     \* its second argument
  merged                   \* its return value, and history: the pairs it matched

vars == <<accounts, raw_transactions, processed_transactions, unified_transactions,
          account_balances, pc, sorted_transactions, cursor, verified, journal_log,
          rows_arg, rows_result, first_run, today, up_bank_transactions,
          match_call, transactions_file, all_transactions_file, sync_state_file,
          accounts_file, enriched_transactions_file, enriched_all_transactions_file,
          run_sync_returned, our_transactions, upbank_transactions, merged>>

\* the files of the Up Bank sync
sync_vars == <<transactions_file, all_transactions_file, sync_state_file, accounts_file,
               enriched_transactions_file, enriched_all_transactions_file,
               run_sync_returned>>

\* the arguments and the result of merge_transactions
merge_vars == <<our_transactions, upbank_transactions, merged>>

\* the state of the reconciliation engine
engine_vars == <<accounts, raw_transactions, processed_transactions, unified_transactions,
                 account_balances, pc, sorted_transactions, cursor, verified, journal_log,
                 rows_arg, rows_result, first_run, today, up_bank_transactions,
                 match_call>>

(***************************************************************************)
(* Bounds of the model.                                                    *)
(***************************************************************************)
MaxPool == 2

\* rows of one CSV file
MaxRows == 2

\* records handed to the exporter
MaxExport == 2

\* raw pool of the counterparty-matching runs
MaxMatchPool == 3

(***************************************************************************)
(* Program constants.                                                      *)
(***************************************************************************)
\* 0.01, the tolerance of every balance comparison, in half-cents
Tolerance == 2

\* timedelta(days=2) of find_matching_transfer
TransferWindowDays == 2

Abs(x) == IF x < 0 THEN -x ELSE x

Min(S) == CHOOSE x \in S : \A y \in S : x <= y

RECURSIVE SumOver(_, _)
SumOver(S, f) ==
  IF S = {} THEN 0
  ELSE LET a == CHOOSE x \in S : TRUE
       IN f[a] + SumOver(S \ {a}, f)

(***************************************************************************)
(* The account registry.                                                   *)
(***************************************************************************)
AccountType ==
  [a \in {"credit_card", "debit", "emergency_fund", "old_credit_card", "saver",
          "expense", "income", "transfer"} |->
     CASE a \in {"credit_card", "old_credit_card"} -> "LIABILITY"
       [] a \in {"debit", "emergency_fund", "saver"} -> "ASSET"
       [] a = "expense" -> "EXPENSE"
       [] a = "income" -> "INCOME"
       [] a = "transfer" -> "EQUITY"]

AccountKeys == DOMAIN AccountType

\* the registry EnhancedDoubleEntryAccountingSystem builds for itself
FullRegistry == AccountKeys

\* the registry the unit tests hand to TransactionProcessor
SampleRegistry == {"credit_card", "debit", "expense", "income"}

Registries == {FullRegistry, SampleRegistry}

TypeOf(registry, account) ==
  IF account \in registry THEN AccountType[account] ELSE "None"

(***************************************************************************)
(* Normalizer.  A date text is the triple <<dd, mm, yyyy>> read off the    *)
(* text; <<0, 0, 0>> stands for a text that is no date at all.             *)
(***************************************************************************)
IsLeap(y) == (y % 4 = 0 /\ y % 100 # 0) \/ y % 400 = 0

DaysInMonth(m, y) ==
  CASE m \in {1, 3, 5, 7, 8, 10, 12} -> 31
    [] m \in {4, 6, 9, 11} -> 30
    [] m = 2 -> IF IsLeap(y) THEN 29 ELSE 28
    [] OTHER -> 0

RECURSIVE DaysBeforeMonth(_, _)
DaysBeforeMonth(m, y) ==
  IF m <= 1 THEN 0 ELSE DaysInMonth(m - 1, y) + DaysBeforeMonth(m - 1, y)

RECURSIVE DaysBeforeYear(_)
DaysBeforeYear(y) ==
  IF y <= 2023 THEN 0
  ELSE (IF IsLeap(y - 1) THEN 366 ELSE 365) + DaysBeforeYear(y - 1)

parse_date(date_str) ==
  LET d == date_str[1]
      m == date_str[2]
      y == date_str[3]
  IN IF y >= 2023 /\ m \in 1..12 /\ d >= 1 /\ d <= DaysInMonth(m, y)
     THEN [isdt |-> TRUE, day |-> DaysBeforeYear(y) + DaysBeforeMonth(m, y) + d,
           text |-> date_str]
     ELSE [isdt |-> FALSE, day |-> 0, text |-> date_str]

\* An amount text: a decimal number as written ("num"), the same between
\* parentheses ("paren"), or a text that is no number ("garbage").
parse_amount(amount_str) ==
  CASE amount_str.form = "num" -> amount_str.value
    [] amount_str.form = "paren" ->
         IF amount_str.value >= 0 THEN -amount_str.value ELSE 0
    [] OTHER -> 0

(***************************************************************************)
(* Classifier, on the descriptions the model feeds in.                     *)
(***************************************************************************)
Descriptions == {"WOOLWORTHS", "TRANSFER TO xx5784", "BPAY"}

categorize_transaction(description) ==
  CASE description = "WOOLWORTHS" -> "groceries"
    [] description \in {"TRANSFER TO xx5784", "TRANSFER TO xx2467", "BPAY",
                        "TRANSFER TO xx0000"} -> "transfers"
    [] OTHER -> "uncategorized"

is_transfer(description) ==
  description \in {"TRANSFER TO xx5784", "TRANSFER TO xx2467", "BPAY",
                   "TRANSFER TO xx0000"}

extract_account_reference(description) ==
  CASE description = "TRANSFER TO xx5784" -> "xx5784"
    [] description = "TRANSFER TO xx2467" -> "xx2467"
    [] description = "TRANSFER TO xx0000" -> "xx0000"
    [] OTHER -> "None"

find_account_by_reference(account_reference) ==
  CASE account_reference = "xx5784" -> "credit_card"
    [] account_reference = "xx9070" -> "debit"
    [] account_reference = "xx1893" -> "emergency_fund"
    [] account_reference = "xx1212" -> "old_credit_card"
    [] account_reference = "xx2467" -> "saver"
    [] OTHER -> "None"

(***************************************************************************)
(* Loader: one CSV row of one account file.                                *)
(***************************************************************************)
\* mutant: the row is appended whatever its amount
load_row_unfiltered(account_type, row) ==
  LET date == parse_date(row.date)
      amount == parse_amount(row.amount)
      description == row.description
  IN Append(raw_transactions,
            [account |-> account_type,
             date |-> date,
             amount |-> amount,
             description |-> description,
             category |-> categorize_transaction(description),
             is_transfer |-> is_transfer(description),
             account_reference |-> extract_account_reference(description),
             processed |-> FALSE])

load_row(account_type, row) ==
  LET date == parse_date(row.date)
      amount == parse_amount(row.amount)
      description == row.description
  IN IF amount # 0
     THEN Append(raw_transactions,
                 [account |-> account_type,
                  date |-> date,
                  amount |-> amount,
                  description |-> description,
                  category |-> categorize_transaction(description),
                  is_transfer |-> is_transfer(description),
                  account_reference |-> extract_account_reference(description),
                  processed |-> FALSE])
     ELSE raw_transactions

(***************************************************************************)
(* Journal builder.                                                        *)
(***************************************************************************)
add_entry(entries, account, amount, entry_type) ==
  Append(entries, [account |-> account, amount |-> amount, type |-> entry_type])

\* mutant: the scan does not skip the transactions already marked processed
find_matching_transfer_noskip(raw, i, amount) ==
  IF ~raw[i].date.isdt THEN 0
  ELSE LET date_range_start == raw[i].date.day - TransferWindowDays
           date_range_end == raw[i].date.day + TransferWindowDays
           S == {j \in 1..Len(raw) :
                   /\ raw[j].account # raw[i].account
                   /\ raw[j].date.isdt
                   /\ date_range_start <= raw[j].date.day
                   /\ raw[j].date.day <= date_range_end
                   /\ Abs(raw[j].amount) = Abs(amount)
                   /\ (raw[j].amount < 0) = (raw[i].amount > 0)}
       IN IF S = {} THEN 0 ELSE Min(S)

\* mutant: the two ends of the date window are left out
find_matching_transfer_open_window(raw, i, amount) ==
  IF ~raw[i].date.isdt THEN 0
  ELSE LET date_range_start == raw[i].date.day - TransferWindowDays
           date_range_end == raw[i].date.day + TransferWindowDays
           S == {j \in 1..Len(raw) :
                   /\ ~raw[j].processed
                   /\ raw[j].account # raw[i].account
                   /\ raw[j].date.isdt
                   /\ date_range_start < raw[j].date.day
                   /\ raw[j].date.day < date_range_end
                   /\ Abs(raw[j].amount) = Abs(amount)
                   /\ (raw[j].amount < 0) = (raw[i].amount > 0)}
       IN IF S = {} THEN 0 ELSE Min(S)

\* mutant: the last qualifying transaction of the pool is returned
find_matching_transfer_last(raw, i, amount) ==
  IF ~raw[i].date.isdt THEN 0
  ELSE LET date_range_start == raw[i].date.day - TransferWindowDays
           date_range_end == raw[i].date.day + TransferWindowDays
           S == {j \in 1..Len(raw) :
                   /\ ~raw[j].processed
                   /\ raw[j].account # raw[i].account
                   /\ raw[j].date.isdt
                   /\ date_range_start <= raw[j].date.day
                   /\ raw[j].date.day <= date_range_end
                   /\ Abs(raw[j].amount) = Abs(amount)
                   /\ (raw[j].amount < 0) = (raw[i].amount > 0)}
       IN IF S = {} THEN 0 ELSE -Min({-j : j \in S})

\* index in the pool of the first qualifying counterpart, 0 for None
find_matching_transfer(raw, i, amount) ==
  IF ~raw[i].date.isdt THEN 0
  ELSE LET date_range_start == raw[i].date.day - TransferWindowDays
           date_range_end == raw[i].date.day + TransferWindowDays
           S == {j \in 1..Len(raw) :
                   /\ ~raw[j].processed
                   /\ raw[j].account # raw[i].account
                   /\ raw[j].date.isdt
                   /\ date_range_start <= raw[j].date.day
                   /\ raw[j].date.day <= date_range_end
                   /\ Abs(raw[j].amount) = Abs(amount)
                   /\ (raw[j].amount < 0) = (raw[i].amount > 0)}
       IN IF S = {} THEN 0 ELSE Min(S)

\* mutant: the generic bucket is debited with the signed amount
handle_transfer_debit_signed(entries, raw, i) ==
  LET amount == raw[i].amount
      dest_account == find_account_by_reference(raw[i].account_reference)
  IN IF raw[i].account_reference # "None" /\ dest_account # "None"
     THEN [entries |-> add_entry(entries, dest_account, Abs(amount), "DEBIT"),
           matched |-> 0]
     ELSE [entries |-> add_entry(entries, "transfer", amount, "DEBIT"),
           matched |-> 0]

\* the builders return [entries, matched]: matched is the raw index marked
\* processed as counterpart, 0 when there is none
handle_transfer_debit(entries, raw, i) ==
  LET amount == raw[i].amount
      dest_account == find_account_by_reference(raw[i].account_reference)
  IN IF raw[i].account_reference # "None" /\ dest_account # "None"
     THEN [entries |-> add_entry(entries, dest_account, Abs(amount), "DEBIT"),
           matched |-> 0]
     ELSE [entries |-> add_entry(entries, "transfer", Abs(amount), "DEBIT"),
           matched |-> 0]

\* mutant: counterparty matching is tried for every owning account
handle_transfer_credit_any_owner(registry, entries, raw, i) ==
  LET account == raw[i].account
      amount == raw[i].amount
      matching_transfer == find_matching_transfer(raw, i, amount)
      source_account == find_account_by_reference(raw[i].account_reference)
  IN IF matching_transfer # 0
     THEN [entries |-> add_entry(entries, raw[matching_transfer].account, amount, "CREDIT"),
           matched |-> matching_transfer]
     ELSE IF raw[i].account_reference # "None" /\ source_account # "None"
     THEN [entries |-> add_entry(entries, source_account, amount, "CREDIT"),
           matched |-> 0]
     ELSE [entries |-> add_entry(entries, "transfer", amount, "CREDIT"),
           matched |-> 0]

handle_transfer_credit(registry, entries, raw, i) ==
  LET account == raw[i].account
      amount == raw[i].amount
      matching_transfer ==
        IF TypeOf(registry, account) = "LIABILITY"
        THEN find_matching_transfer(raw, i, amount) ELSE 0
      source_account == find_account_by_reference(raw[i].account_reference)
  IN IF matching_transfer # 0
     THEN [entries |-> add_entry(entries, raw[matching_transfer].account, amount, "CREDIT"),
           matched |-> matching_transfer]
     ELSE IF raw[i].account_reference # "None" /\ source_account # "None"
     THEN [entries |-> add_entry(entries, source_account, amount, "CREDIT"),
           matched |-> 0]
     ELSE [entries |-> add_entry(entries, "transfer", amount, "CREDIT"),
           matched |-> 0]

\* mutant: the expense leg is debited with the signed amount
process_liability_transaction_signed(registry, raw, i) ==
  LET account == raw[i].account
      amount == raw[i].amount
  IN IF amount < 0
     THEN [entries |-> add_entry(add_entry(<<>>, "expense", amount, "DEBIT"),
                                 account, Abs(amount), "CREDIT"),
           matched |-> 0]
     ELSE LET debited == add_entry(<<>>, account, amount, "DEBIT")
          IN IF raw[i].is_transfer
             THEN handle_transfer_credit(registry, debited, raw, i)
             ELSE [entries |-> add_entry(debited, "transfer", amount, "CREDIT"),
                   matched |-> 0]

process_liability_transaction(registry, raw, i) ==
  LET account == raw[i].account
      amount == raw[i].amount
  IN IF amount < 0
     THEN [entries |-> add_entry(add_entry(<<>>, "expense", Abs(amount), "DEBIT"),
                                 account, Abs(amount), "CREDIT"),
           matched |-> 0]
     ELSE LET debited == add_entry(<<>>, account, amount, "DEBIT")
          IN IF raw[i].is_transfer
             THEN handle_transfer_credit(registry, debited, raw, i)
             ELSE [entries |-> add_entry(debited, "transfer", amount, "CREDIT"),
                   matched |-> 0]

\* mutant: money going out credits the source account before the debit side
process_asset_transaction_credit_first(registry, raw, i) ==
  LET account == raw[i].account
      amount == raw[i].amount
  IN IF amount < 0
     THEN LET credited == add_entry(<<>>, account, Abs(amount), "CREDIT")
          IN [entries |->
                IF raw[i].is_transfer
                THEN handle_transfer_debit(credited, raw, i).entries
                ELSE add_entry(credited, "expense", Abs(amount), "DEBIT"),
              matched |-> 0]
     ELSE LET debited == add_entry(<<>>, account, amount, "DEBIT")
          IN IF raw[i].is_transfer
             THEN handle_transfer_credit(registry, debited, raw, i)
             ELSE [entries |-> add_entry(debited, "income", amount, "CREDIT"),
                   matched |-> 0]

process_asset_transaction(registry, raw, i) ==
  LET account == raw[i].account
      amount == raw[i].amount
  IN IF amount < 0
     THEN LET debit_side ==
                IF raw[i].is_transfer
                THEN handle_transfer_debit(<<>>, raw, i).entries
                ELSE add_entry(<<>>, "expense", Abs(amount), "DEBIT")
          IN [entries |-> add_entry(debit_side, account, Abs(amount), "CREDIT"),
              matched |-> 0]
     ELSE LET debited == add_entry(<<>>, account, amount, "DEBIT")
          IN IF raw[i].is_transfer
             THEN handle_transfer_credit(registry, debited, raw, i)
             ELSE [entries |-> add_entry(debited, "income", amount, "CREDIT"),
                   matched |-> 0]

\* [record, matched]; the uuid4 id is modelled by a fresh serial number
create_processed_transaction(registry, raw, i, id) ==
  LET account_type == TypeOf(registry, raw[i].account)
      built == CASE account_type = "LIABILITY" -> process_liability_transaction(registry, raw, i)
                 [] account_type = "ASSET" -> process_asset_transaction(registry, raw, i)
                 [] OTHER -> [entries |-> <<>>, matched |-> 0]
  IN [record |-> [id |-> id,
                  date |-> raw[i].date,
                  description |-> raw[i].description,
                  category |-> raw[i].category,
                  entries |-> built.entries],
      matched |-> built.matched]

(***************************************************************************)
(* sorted(..., key=lambda x: x['date'] if isinstance(x['date'], datetime)  *)
(* else datetime.now()): a stable sort.  Valid dates are midnights; the    *)
(* moment of the run lies strictly inside its day.                         *)
(***************************************************************************)
\* mutant: latest date first
SortKey_descending(date, now) == IF date.isdt THEN -2 * date.day ELSE 2 * now + 1

SortKey(date, now) == IF date.isdt THEN 2 * date.day ELSE 2 * now + 1

RECURSIVE InsertStable(_, _, _, _)
\* an unstable insertion: index i goes in front of the indices with an equal key
InsertStable_before_equal(sorted, i, seq, now) ==
  IF sorted = <<>> THEN <<i>>
  ELSE LET last == sorted[Len(sorted)]
       IN IF SortKey(seq[last].date, now) < SortKey(seq[i].date, now)
          THEN Append(sorted, i)
          ELSE Append(InsertStable(SubSeq(sorted, 1, Len(sorted) - 1), i, seq, now), last)

\* insert index i behind every index whose key is <= its own
InsertStable(sorted, i, seq, now) ==
  IF sorted = <<>> THEN <<i>>
  ELSE LET last == sorted[Len(sorted)]
       IN IF SortKey(seq[last].date, now) <= SortKey(seq[i].date, now)
          THEN Append(sorted, i)
          ELSE Append(InsertStable(SubSeq(sorted, 1, Len(sorted) - 1), i, seq, now), last)

RECURSIVE SortedUpTo(_, _, _)
SortedUpTo(seq, n, now) ==
  IF n = 0 THEN <<>>
  ELSE InsertStable(SortedUpTo(seq, n - 1, now), n, seq, now)

\* the indices of seq in the order sorted() returns its elements
sorted_by_date(seq, now) == SortedUpTo(seq, Len(seq), now)

\* the days on which the pipeline may be run: 2024-02-28 and 2024-03-05
RunDays == {parse_date(<<28, 2, 2024>>).day, parse_date(<<5, 3, 2024>>).day}

(***************************************************************************)
(* Balance ledger.                                                         *)
(***************************************************************************)
\* mutant: a CREDIT adds to every account type
apply_entry_credit_adds(registry, balances, entry) ==
  IF entry.account \in registry
  THEN LET account_type == AccountType[entry.account]
           amount == entry.amount
       IN IF entry.type = "DEBIT"
          THEN IF account_type \in {"ASSET", "EXPENSE"}
               THEN [balances EXCEPT ![entry.account] = @ + amount]
               ELSE [balances EXCEPT ![entry.account] = @ - amount]
          ELSE [balances EXCEPT ![entry.account] = @ + amount]
  ELSE balances

\* mutant: credit-type accounts are held as negative numbers
apply_entry_credit_negative(registry, balances, entry) ==
  IF entry.account \in registry
  THEN LET amount == entry.amount
       IN IF entry.type = "DEBIT"
          THEN [balances EXCEPT ![entry.account] = @ + amount]
          ELSE [balances EXCEPT ![entry.account] = @ - amount]
  ELSE balances

apply_entry(registry, balances, entry) ==
  IF entry.account \in registry
  THEN LET account_type == AccountType[entry.account]
           amount == entry.amount
       IN IF entry.type = "DEBIT"
          THEN IF account_type \in {"ASSET", "EXPENSE"}
               THEN [balances EXCEPT ![entry.account] = @ + amount]
               ELSE [balances EXCEPT ![entry.account] = @ - amount]
          ELSE IF account_type \in {"ASSET", "EXPENSE"}
               THEN [balances EXCEPT ![entry.account] = @ - amount]
               ELSE [balances EXCEPT ![entry.account] = @ + amount]
  ELSE balances

\* mutant: only the first entry of a record reaches the balances
apply_entries_first_only(registry, balances, entries) ==
  IF entries = <<>> THEN balances
  ELSE apply_entry(registry, balances, Head(entries))

RECURSIVE apply_entries(_, _, _)
apply_entries(registry, balances, entries) ==
  IF entries = <<>> THEN balances
  ELSE apply_entries(registry, apply_entry(registry, balances, Head(entries)), Tail(entries))

\* transaction['date'].strftime('%Y-%m-%d'), or str() of an unparsed date
format_date(date) ==
  IF date.isdt THEN <<date.text[3], date.text[2], date.text[1]>> ELSE date.text

(***************************************************************************)
(* Verifier over the final balances (the method without argument).         *)
(***************************************************************************)
\* mutant: the two totals are added instead of compared
verify_double_entry_accounting_sum(registry, balances) ==
  LET total_debits ==
        SumOver({a \in DOMAIN balances :
                   a \in registry /\ AccountType[a] \in {"ASSET", "EXPENSE"}}, balances)
      total_credits ==
        SumOver({a \in DOMAIN balances :
                   a \in registry /\ AccountType[a] \in {"LIABILITY", "EQUITY", "INCOME"}},
                balances)
  IN Abs(total_debits + total_credits) < Tolerance

verify_double_entry_accounting(registry, balances) ==
  LET total_debits ==
        SumOver({a \in DOMAIN balances :
                   a \in registry /\ AccountType[a] \in {"ASSET", "EXPENSE"}}, balances)
      total_credits ==
        SumOver({a \in DOMAIN balances :
                   a \in registry /\ AccountType[a] \in {"LIABILITY", "EQUITY", "INCOME"}},
                balances)
  IN Abs(total_debits - total_credits) < Tolerance

\* a JSON file that does not exist yet
NoFile == [exists |-> FALSE, transactions |-> <<>>]

\* the storage directory of the Up Bank sync before its first run
NoSyncFiles ==
  /\ transactions_file = <<>>
  /\ all_transactions_file = <<>>
  /\ sync_state_file = 0
  /\ accounts_file = <<>>
  /\ enriched_transactions_file = NoFile
  /\ enriched_all_transactions_file = NoFile
  /\ run_sync_returned = "none"

\* merge_transactions has not been called
NoMerge ==
  /\ our_transactions = <<>>
  /\ upbank_transactions = <<>>
  /\ merged = [stage |-> "start", data |-> <<>>, pairs |-> {}]

(***************************************************************************)
(* The batch pipeline of process_bank_data: load, journal, replay, verify. *)
(***************************************************************************)
\* find_matching_transfer has not been called directly
NoCall == [transaction |-> 0, returned |-> 0]

NoRun == [done |-> FALSE, journal |-> <<>>, balances |-> <<>>]

Constructed(registry) ==
  /\ accounts = registry
  /\ raw_transactions = <<>>
  /\ processed_transactions = <<>>
  /\ unified_transactions = <<>>
  /\ account_balances = [a \in registry |-> 0]
  /\ pc = "load"
  /\ sorted_transactions = <<>>
  /\ cursor = 0
  /\ verified = FALSE
  /\ journal_log = <<>>
  /\ rows_arg = <<>>
  /\ rows_result = FALSE
  /\ first_run = NoRun
  /\ today = Min(RunDays)
  /\ up_bank_transactions = <<>>
  /\ match_call = NoCall
  /\ NoSyncFiles
  /\ NoMerge

\* the rows and the account files the model feeds to the loader
RowDates == {<<28, 2, 2024>>, <<1, 3, 2024>>, <<2, 3, 2024>>}

RowAmounts == {[form |-> "num", value |-> -40000], [form |-> "num", value |-> 40000],
               [form |-> "num", value |-> -9000]}

Rows == [date : RowDates, amount : RowAmounts, description : Descriptions]

LoadedAccounts == {"saver", "credit_card"}

LoadFrom(owners, rows) ==
  /\ pc = "load"
  /\ ~first_run.done
  /\ Len(raw_transactions) < MaxPool
  /\ \E account_type \in owners \cap accounts, row \in rows :
       raw_transactions' = load_row(account_type, row)
  /\ UNCHANGED <<sync_vars, merge_vars, match_call, up_bank_transactions, accounts,
                 processed_transactions, unified_transactions, account_balances, pc,
                 sorted_transactions, cursor, verified, journal_log, rows_arg,
                 rows_result, first_run, today>>

Load == LoadFrom(LoadedAccounts, Rows)

\* process_raw_transactions: the sort, then one loop iteration per step
ProcessBegin ==
  /\ pc = "load"
  /\ \E now \in RunDays :
       /\ now >= today
       /\ today' = now
       /\ sorted_transactions' = sorted_by_date(raw_transactions, now)
  /\ cursor' = 1
  /\ pc' = IF raw_transactions = <<>> THEN "processed" ELSE "process"
  /\ UNCHANGED <<sync_vars, merge_vars, match_call, up_bank_transactions, accounts,
                 raw_transactions, processed_transactions, unified_transactions,
                 account_balances, verified, journal_log, rows_arg, rows_result,
                 first_run>>

ProcessStep ==
  /\ pc = "process"
  /\ LET i == sorted_transactions[cursor]
     IN IF raw_transactions[i].processed
        THEN UNCHANGED <<raw_transactions, processed_transactions, journal_log>>
        ELSE LET made == create_processed_transaction(accounts, raw_transactions, i,
                                                      Len(processed_transactions) + 1)
             IN /\ raw_transactions' =
                     [j \in DOMAIN raw_transactions |->
                        IF j = i \/ j = made.matched
                        THEN [raw_transactions[j] EXCEPT !.processed = TRUE]
                        ELSE raw_transactions[j]]
                /\ processed_transactions' = Append(processed_transactions, made.record)
                /\ journal_log' = Append(journal_log, [src |-> i, matched |-> made.matched])
  /\ cursor' = cursor + 1
  /\ pc' = IF cursor = Len(sorted_transactions) THEN "processed" ELSE "process"
  /\ UNCHANGED <<sync_vars, merge_vars, match_call, up_bank_transactions, accounts,
                 unified_transactions, account_balances, sorted_transactions, verified,
                 rows_arg, rows_result, first_run, today>>

\* update_account_balances: the reset and the sort, then one record per step
UpdateBegin ==
  /\ pc = "processed"
  /\ account_balances' = [a \in accounts |-> 0]
  /\ \E now \in RunDays :
       /\ now >= today
       /\ today' = now
       /\ sorted_transactions' = sorted_by_date(processed_transactions, now)
  /\ cursor' = 1
  /\ pc' = IF processed_transactions = <<>> THEN "updated" ELSE "update"
  /\ UNCHANGED <<sync_vars, merge_vars, match_call, up_bank_transactions, accounts,
                 raw_transactions, processed_transactions, unified_transactions,
                 verified, journal_log, rows_arg, rows_result, first_run>>

\* mutant: the record keeps a reference to the live balances map instead of a copy
UpdateStep_shared_balances ==
  /\ pc = "update"
  /\ LET transaction == processed_transactions[sorted_transactions[cursor]]
         balances == apply_entries(accounts, account_balances, transaction.entries)
     IN /\ account_balances' = balances
        /\ unified_transactions' =
             Append([k \in DOMAIN unified_transactions |->
                       [unified_transactions[k] EXCEPT !.balances = balances]],
                    [id |-> transaction.id,
                     date |-> format_date(transaction.date),
                     description |-> transaction.description,
                     category |-> transaction.category,
                     entries |-> transaction.entries,
                     balances |-> balances])
  /\ cursor' = cursor + 1
  /\ pc' = IF cursor = Len(sorted_transactions) THEN "updated" ELSE "update"
  /\ UNCHANGED <<sync_vars, merge_vars, match_call, up_bank_transactions, accounts,
                 raw_transactions, processed_transactions, sorted_transactions, verified,
                 journal_log, rows_arg, rows_result, first_run, today>>

UpdateStep ==
  /\ pc = "update"
  /\ LET transaction == processed_transactions[sorted_transactions[cursor]]
         balances == apply_entries(accounts, account_balances, transaction.entries)
     IN /\ account_balances' = balances
        /\ unified_transactions' =
             Append(unified_transactions,
                    [id |-> transaction.id,
                     date |-> format_date(transaction.date),
                     description |-> transaction.description,
                     category |-> transaction.category,
                     entries |-> transaction.entries,
                     balances |-> balances])
  /\ cursor' = cursor + 1
  /\ pc' = IF cursor = Len(sorted_transactions) THEN "updated" ELSE "update"
  /\ UNCHANGED <<sync_vars, merge_vars, match_call, up_bank_transactions, accounts,
                 raw_transactions, processed_transactions, sorted_transactions, verified,
                 journal_log, rows_arg, rows_result, first_run, today>>

Verify ==
  /\ pc = "updated"
  /\ verified' = verify_double_entry_accounting(accounts, account_balances)
  /\ pc' = "verified"
  /\ UNCHANGED <<sync_vars, merge_vars, match_call, up_bank_transactions, accounts,
                 raw_transactions, processed_transactions, unified_transactions,
                 account_balances, sorted_transactions, cursor, journal_log, rows_arg,
                 rows_result, first_run, today>>

(***************************************************************************)
(* Exporter: prepare_for_up_bank_api over the unified records.  The uuid4  *)
(* ids of the registry are modelled by fixed, distinct ids.                *)
(***************************************************************************)
RealAccounts == {"credit_card", "debit", "emergency_fund", "saver", "old_credit_card"}

AccountId ==
  [a \in AccountKeys |->
     CASE a = "credit_card" -> "123"
       [] a = "debit" -> "456"
       [] a = "emergency_fund" -> "789"
       [] a = "old_credit_card" -> "101"
       [] a = "saver" -> "102"
       [] OTHER -> "None"]

\* one record: [outcome |-> "skip"], [outcome |-> "KeyError"] (a real account
\* the registry lacks) or [outcome |-> "ok", up_transaction |-> ...];
\* transferAccount "None" stands for an absent key
prepare_transaction(registry, transaction) ==
  LET entries == transaction.entries
      real == {e \in 1..Len(entries) : entries[e].account \in RealAccounts}
  IN IF real = {} THEN [outcome |-> "skip"]
     ELSE LET entry == entries[Min(real)]
              source_account == entry.account
          IN IF source_account \notin registry THEN [outcome |-> "KeyError"]
             ELSE LET account_type == AccountType[source_account]
                      amount ==
                        IF account_type = "ASSET"
                        THEN (IF entry.type = "DEBIT" THEN entry.amount ELSE -entry.amount)
                        ELSE (IF entry.type = "DEBIT" THEN -entry.amount ELSE entry.amount)
                      is_transfer_record ==
                        \E e \in 1..Len(entries) : entries[e].account = "transfer"
                      account_entries ==
                        {e \in real : entries[e].account # source_account}
                      transfer_account ==
                        IF is_transfer_record /\ account_entries # {}
                        THEN entries[Min(account_entries)].account
                        ELSE "None"
                  IN IF transfer_account # "None" /\ transfer_account \notin registry
                     THEN [outcome |-> "KeyError"]
                     ELSE [outcome |-> "ok",
                           up_transaction |->
                             [id |-> transaction.id,
                              description |-> transaction.description,
                              category |-> transaction.category,
                              value |-> Abs(amount),
                              valueInBaseUnits |-> Abs(amount) \div 2,
                              settledAt |-> transaction.date,
                              account |-> AccountId[source_account],
                              transferAccount |->
                                IF transfer_account = "None" THEN "None"
                                ELSE AccountId[transfer_account]]]

RECURSIVE prepare_for_up_bank_api(_, _)

\* mutant: the list is built newest first
prepare_for_up_bank_api_prepended(registry, transactions) ==
  IF transactions = <<>> THEN [error |-> FALSE, data |-> <<>>]
  ELSE LET before == prepare_for_up_bank_api(registry,
                                             SubSeq(transactions, 1, Len(transactions) - 1))
           made == prepare_transaction(registry, transactions[Len(transactions)])
       IN CASE before.error \/ made.outcome = "KeyError" ->
                 [error |-> TRUE, data |-> <<>>]
            [] made.outcome = "skip" -> before
            [] OTHER -> [error |-> FALSE, data |-> <<made.up_transaction>> \o before.data]

\* [error, data]: the list built, or the KeyError that ended the call
prepare_for_up_bank_api(registry, transactions) ==
  IF transactions = <<>> THEN [error |-> FALSE, data |-> <<>>]
  ELSE LET before == prepare_for_up_bank_api(registry,
                                             SubSeq(transactions, 1, Len(transactions) - 1))
           made == prepare_transaction(registry, transactions[Len(transactions)])
       IN CASE before.error \/ made.outcome = "KeyError" ->
                 [error |-> TRUE, data |-> <<>>]
            [] made.outcome = "skip" -> before
            [] OTHER -> [error |-> FALSE, data |-> Append(before.data, made.up_transaction)]

Export ==
  /\ pc = "verified"
  /\ LET result == prepare_for_up_bank_api(accounts, unified_transactions)
     IN IF result.error
        THEN /\ pc' = "export_failed"
             /\ UNCHANGED up_bank_transactions
        ELSE /\ pc' = "exported"
             /\ up_bank_transactions' = result.data
  /\ UNCHANGED <<sync_vars, merge_vars, match_call, accounts, raw_transactions,
                 processed_transactions, unified_transactions, account_balances,
                 sorted_transactions, cursor, verified, journal_log, rows_arg,
                 rows_result, first_run, today>>

Init == \E registry \in Registries : Constructed(registry)

Next ==
  Load \/ ProcessBegin \/ ProcessStep \/ UpdateBegin \/ UpdateStep \/ Verify \/ Export

Spec == Init /\ [][Next]_vars

(***************************************************************************)
(* Vocabulary of the properties.                                           *)
(***************************************************************************)
RECURSIVE EntryTotal(_, _)
EntryTotal(entries, entry_type) ==
  IF entries = <<>> THEN 0
  ELSE (IF Head(entries).type = entry_type THEN Head(entries).amount ELSE 0)
       + EntryTotal(Tail(entries), entry_type)

\* every account named in a journal entry is in the registry
EntriesRegistered ==
  \A k \in 1..Len(processed_transactions) :
    \A e \in 1..Len(processed_transactions[k].entries) :
      processed_transactions[k].entries[e].account \in accounts

\* balance of an account in a balances map, 0 when the registry or the map lacks it
BalanceIn(balances, a) ==
  IF a \in accounts /\ a \in DOMAIN balances THEN balances[a] ELSE 0

AssetExpenseSum(balances) ==
  BalanceIn(balances, "debit") + BalanceIn(balances, "emergency_fund")
  + BalanceIn(balances, "saver") + BalanceIn(balances, "expense")

LiabilityEquityIncomeSum(balances) ==
  BalanceIn(balances, "credit_card") + BalanceIn(balances, "old_credit_card")
  + BalanceIn(balances, "transfer") + BalanceIn(balances, "income")

IdentityHolds(balances) ==
  Abs(AssetExpenseSum(balances) - LiabilityEquityIncomeSum(balances)) < Tolerance

Replayed == pc \in {"updated", "verified", "exported", "export_failed"}

Journaled ==
  pc \in {"processed", "update", "updated", "verified", "exported", "export_failed"}

IsRow(tx, account, date_text, amount, description) ==
  /\ tx.account = account
  /\ tx.date.text = date_text
  /\ tx.amount = amount
  /\ tx.description = description

JournalSources == {journal_log[k].src : k \in 1..Len(journal_log)}

Consumed == {journal_log[k].matched : k \in 1..Len(journal_log)} \ {0}

(***************************************************************************)
(* C1: every journal record produced by process_raw_transactions has a     *)
(* total DEBIT amount equal to its total CREDIT amount, within 0.01,       *)
(* whichever branch built it.                                              *)
(***************************************************************************)
C1_RecordsBalanced ==
  \A k \in 1..Len(processed_transactions) :
    Abs(EntryTotal(processed_transactions[k].entries, "DEBIT")
        - EntryTotal(processed_transactions[k].entries, "CREDIT")) < Tolerance

\* a journal that holds a record built by counterparty matching
C1_Witness ==
  /\ pc = "processed"
  /\ \E k \in 1..Len(journal_log) :
       /\ journal_log[k].matched # 0
       /\ Len(processed_transactions[k].entries) = 2

(***************************************************************************)
(* C2: when the registry contains every account named in an entry, every   *)
(* per-record balance snapshot of the replay satisfies                     *)
(* sum(ASSET+EXPENSE) = sum(LIABILITY+EQUITY+INCOME) within 0.01.          *)
(***************************************************************************)
C2_SnapshotsBalanced ==
  EntriesRegistered =>
    \A k \in 1..Len(unified_transactions) :
      IdentityHolds(unified_transactions[k].balances)

\* two records replayed, hence two snapshots, one of them not the final balances
C2_Witness ==
  /\ pc = "updated"
  /\ EntriesRegistered
  /\ Len(unified_transactions) = 2
  /\ unified_transactions[1].balances # account_balances

(***************************************************************************)
(* C3: in the transfer scenario (A: saver -200.00 on 2024-03-01, transfer  *)
(* with reference xx5784; B: credit_card +200.00 on 2024-03-02, transfer)  *)
(* the movement is counted once: after replay credit_card and saver have   *)
(* each been reduced by exactly 200.00.                                    *)
(***************************************************************************)
TransferScenario ==
  /\ accounts = FullRegistry
  /\ Len(raw_transactions) = 2
  /\ IsRow(raw_transactions[1], "saver", <<1, 3, 2024>>, -40000, "TRANSFER TO xx5784")
  /\ IsRow(raw_transactions[2], "credit_card", <<2, 3, 2024>>, 40000, "BPAY")

C3_TransferCountedOnce ==
  (TransferScenario /\ Replayed) =>
    /\ account_balances["credit_card"] = -40000
    /\ account_balances["saver"] = -40000

UnmatchedTransfers ==
  {i \in 1..Len(raw_transactions) :
     /\ raw_transactions[i].is_transfer
     /\ i \notin Consumed
     /\ \A k \in 1..Len(journal_log) :
          journal_log[k].src = i => journal_log[k].matched = 0}

C5_VerifyIffDecomposes ==
  (pc = "verified" /\ accounts = FullRegistry) =>
    (verified <=> UnmatchedTransfers = {})

(***************************************************************************)
(* C5, amended: after journal build and replay over a registry that        *)
(* contains every account named in an entry, verify() is true for every    *)
(* pool, also when a transfer-flagged row has no counterpart row.          *)
(***************************************************************************)
C5_VerifyAfterPipeline ==
  (pc = "verified" /\ EntriesRegistered) => verified

\* verify() answered true on a pool with an unmatched transfer row
C5_Witness ==
  /\ pc = "verified"
  /\ accounts = FullRegistry
  /\ UnmatchedTransfers # {}
  /\ verified

(***************************************************************************)
(* C6.  As claimed: for the single row {credit_card, 01/03/2024, "-45.00", *)
(* "WOOLWORTHS"} the balances after replay are credit_card = -45.00 and    *)
(* expense = 45.00.                                                        *)
(***************************************************************************)
WoolworthsScenario ==
  /\ Len(raw_transactions) = 1
  /\ IsRow(raw_transactions[1], "credit_card", <<1, 3, 2024>>, -9000, "WOOLWORTHS")

BalanceKeys == {"debit", "expense", "credit_card", "income", "transfer"}

\* -100.00, -50.00, -40.00, 0, 50.00, 100.00
BalanceValues == {-20000, -10000, -8000, 0, 10000, 20000}

InitBalances ==
  /\ accounts = SampleRegistry
  /\ raw_transactions = <<>>
  /\ processed_transactions = <<>>
  /\ unified_transactions = <<>>
  /\ account_balances \in [BalanceKeys -> BalanceValues]
  /\ pc = "updated"
  /\ sorted_transactions = <<>>
  /\ cursor = 0
  /\ verified = FALSE
  /\ journal_log = <<>>
  /\ rows_arg = <<>>
  /\ rows_result = FALSE
  /\ first_run = NoRun
  /\ today = Min(RunDays)
  /\ up_bank_transactions = <<>>
  /\ match_call = NoCall
  /\ NoSyncFiles
  /\ NoMerge

NextBalances == Verify

SpecBalances == InitBalances /\ [][NextBalances]_vars

(***************************************************************************)
(* TransactionProcessor.verify_double_entry_accounting(transactions): the  *)
(* verifier over single-entry rows {amount, account_id}.                   *)
(***************************************************************************)
account_types(account_id) ==
  CASE account_id = "credit_card" -> "LIABILITY"
    [] account_id = "debit" -> "ASSET"
    [] account_id = "emergency_fund" -> "ASSET"
    [] account_id = "old_credit_card" -> "LIABILITY"
    [] account_id = "saver" -> "ASSET"
    [] OTHER -> "None"

verify_double_entry_accounting_transactions(transactions) ==
  LET ids == {transactions[k].account_id : k \in 1..Len(transactions)}
      signed == [k \in 1..Len(transactions) |->
                   IF account_types(transactions[k].account_id) = "LIABILITY"
                   THEN -transactions[k].amount
                   ELSE transactions[k].amount]
      balance == [id \in ids |->
                    SumOver({k \in 1..Len(transactions) : transactions[k].account_id = id},
                            signed)]
      total_debits == SumOver({id \in ids : balance[id] > 0}, balance)
      total_credits == Abs(SumOver({id \in ids : balance[id] < 0}, balance))
  IN Abs(total_debits - total_credits) < Tolerance

AssetIds == {"ASSET_1", "debit", "saver", "emergency_fund"}

LiabilityIds == {"LIABILITY_1", "credit_card", "old_credit_card"}

\* 100.00, -100.00, -99.99, -50.00
RowValues == {20000, -20000, -19998, -10000}

SingleEntryRows == [account_id : AssetIds \cup LiabilityIds, amount : RowValues]

InitRows ==
  /\ accounts = {}
  /\ raw_transactions = <<>>
  /\ processed_transactions = <<>>
  /\ unified_transactions = <<>>
  /\ account_balances = <<>>
  /\ pc = "rows"
  /\ sorted_transactions = <<>>
  /\ cursor = 0
  /\ verified = FALSE
  /\ journal_log = <<>>
  /\ rows_arg \in {<<a, b>> : a \in SingleEntryRows, b \in SingleEntryRows}
  /\ rows_result = FALSE
  /\ first_run = NoRun
  /\ today = Min(RunDays)
  /\ up_bank_transactions = <<>>
  /\ match_call = NoCall
  /\ NoSyncFiles
  /\ NoMerge

VerifyTransactions ==
  /\ pc = "rows"
  /\ rows_result' = verify_double_entry_accounting_transactions(rows_arg)
  /\ pc' = "rows_done"
  /\ UNCHANGED <<sync_vars, merge_vars, match_call, up_bank_transactions, accounts,
                 raw_transactions, processed_transactions, unified_transactions,
                 account_balances, sorted_transactions, cursor, verified, journal_log,
                 rows_arg, first_run, today>>

NextRows == VerifyTransactions

SpecRows == InitRows /\ [][NextRows]_vars

(***************************************************************************)
(* The pipeline run twice on the same raw pool: once it has replayed, a    *)
(* fresh processor is constructed on an identical, identically ordered     *)
(* pool and the pipeline is run again, at the same time or later.          *)
(***************************************************************************)
\* a text that is no date, and 01/03/2024
RerunDates == {<<0, 0, 0>>, <<1, 3, 2024>>}

RerunAmounts == {[form |-> "num", value |-> -40000], [form |-> "num", value |-> 40000]}

RerunRows == [date : RerunDates, amount : RerunAmounts, description : {"WOOLWORTHS", "BPAY"}]

\* a journal, generated ids aside
JournalOf(journal) ==
  [k \in 1..Len(journal) |->
     [date |-> journal[k].date,
      description |-> journal[k].description,
      category |-> journal[k].category,
      entries |-> journal[k].entries]]

LoadRerun == LoadFrom(LoadedAccounts, RerunRows)

Rerun ==
  /\ pc \in {"updated", "verified"}
  /\ ~first_run.done
  /\ first_run' = [done |-> TRUE,
                   journal |-> JournalOf(processed_transactions),
                   balances |-> account_balances]
  /\ raw_transactions' = [i \in DOMAIN raw_transactions |->
                            [raw_transactions[i] EXCEPT !.processed = FALSE]]
  /\ processed_transactions' = <<>>
  /\ unified_transactions' = <<>>
  /\ account_balances' = [a \in accounts |-> 0]
  /\ pc' = "load"
  /\ sorted_transactions' = <<>>
  /\ cursor' = 0
  /\ verified' = FALSE
  /\ journal_log' = <<>>
  /\ UNCHANGED <<sync_vars, merge_vars, match_call, up_bank_transactions, accounts,
                 rows_arg, rows_result, today>>

InitRerun == Constructed(FullRegistry)

NextRerun ==
  LoadRerun \/ ProcessBegin \/ ProcessStep \/ UpdateBegin \/ UpdateStep \/ Verify \/ Export
  \/ Rerun

SpecRerun == InitRerun /\ [][NextRerun]_vars

(***************************************************************************)
(* C8: verify_double_entry_accounting() without argument returns True on   *)
(* the balances {debit 100, expense 50, credit_card -100, income -50,      *)
(* transfer 0} and False when income is -40: balances verify when the      *)
(* ASSET+EXPENSE total and the LIABILITY+EQUITY+INCOME total cancel to     *)
(* zero, credit-type balances being negative numbers.                      *)
(***************************************************************************)
BalancedFixture ==
  [debit |-> 20000, expense |-> 10000, credit_card |-> -20000, income |-> -10000,
   transfer |-> 0]

UnbalancedFixture ==
  [debit |-> 20000, expense |-> 10000, credit_card |-> -20000, income |-> -8000,
   transfer |-> 0]

C8_VerifyFixtures ==
  pc = "verified" =>
    /\ account_balances = BalancedFixture => verified
    /\ account_balances = UnbalancedFixture => ~verified

(***************************************************************************)
(* C9: verify_double_entry_accounting(transactions) returns True when a    *)
(* row of +X on an asset account is paired with a row of -X on a liability *)
(* account and False when the magnitudes differ by 0.01 or more, for every *)
(* asset and liability account id, the registered ones included.           *)
(***************************************************************************)
C9_PairedRowsVerify ==
  (/\ pc = "rows_done"
   /\ rows_arg[1].account_id \in AssetIds
   /\ rows_arg[1].amount > 0
   /\ rows_arg[2].account_id \in LiabilityIds
   /\ rows_arg[2].amount < 0) =>
    /\ rows_arg[1].amount = -rows_arg[2].amount => rows_result
    /\ Abs(rows_arg[1].amount + rows_arg[2].amount) >= Tolerance => ~rows_result

(***************************************************************************)
(* C10: the pipeline run on two identical, identically ordered raw pools   *)
(* yields the same sequence of journal records (ids aside) and the same    *)
(* final balances.                                                         *)
(***************************************************************************)
C10_RerunIdentical ==
  (first_run.done /\ Replayed) =>
    /\ JournalOf(processed_transactions) = first_run.journal
    /\ account_balances = first_run.balances

(***************************************************************************)
(* C11: every journal record built for an ASSET- or LIABILITY-owned raw    *)
(* transaction has exactly two entries, a DEBIT followed by a CREDIT, each *)
(* with the non-negative amount abs(raw amount); the owning account takes  *)
(* the CREDIT leg when the raw amount is negative, the DEBIT leg           *)
(* otherwise.                                                              *)
(***************************************************************************)
C11_TwoLegs ==
  \A k \in 1..Len(processed_transactions) :
    LET tx == raw_transactions[journal_log[k].src]
        entries == processed_transactions[k].entries
    IN TypeOf(accounts, tx.account) \in {"ASSET", "LIABILITY"} =>
         /\ Len(entries) = 2
         /\ entries[1].type = "DEBIT"
         /\ entries[2].type = "CREDIT"
         /\ entries[1].amount = Abs(tx.amount)
         /\ entries[2].amount = Abs(tx.amount)
         /\ entries[1].amount >= 0
         /\ IF tx.amount < 0
            THEN entries[2].account = tx.account
            ELSE entries[1].account = tx.account

\* a journal with a record of an asset-owned outgoing transfer and a record
\* of a liability-owned payment
C11_Witness ==
  /\ pc = "processed"
  /\ \E k, l \in 1..Len(processed_transactions) :
       /\ AccountType[raw_transactions[journal_log[k].src].account] = "ASSET"
       /\ raw_transactions[journal_log[k].src].amount < 0
       /\ raw_transactions[journal_log[k].src].is_transfer
       /\ AccountType[raw_transactions[journal_log[l].src].account] = "LIABILITY"
       /\ raw_transactions[journal_log[l].src].amount > 0

(***************************************************************************)
(* load_credit_card on one CSV file: rows = list(reader), then one row per *)
(* step.  A row carries the number of its columns; rows of fewer than      *)
(* three columns are passed over.                                          *)
(***************************************************************************)
\* "-45.00", "0.00", "abc", "(45.00)", "(-45.00)"
CsvAmounts == {[form |-> "num", value |-> -9000], [form |-> "num", value |-> 0],
               [form |-> "garbage", value |-> 0], [form |-> "paren", value |-> 9000],
               [form |-> "paren", value |-> -9000]}

CsvRows == [date : {<<1, 3, 2024>>, <<2, 3, 2024>>}, amount : CsvAmounts,
            description : {"WOOLWORTHS"}, cols : {2, 3}]

RECURSIVE SeqsUpTo(_, _)
SeqsUpTo(S, n) ==
  IF n = 0 THEN {<<>>}
  ELSE LET shorter == SeqsUpTo(S, n - 1)
       IN shorter \cup {Append(q, x) : q \in {r \in shorter : Len(r) = n - 1}, x \in S}

InitLoad ==
  /\ accounts = FullRegistry
  /\ raw_transactions = <<>>
  /\ processed_transactions = <<>>
  /\ unified_transactions = <<>>
  /\ account_balances = [a \in FullRegistry |-> 0]
  /\ rows_arg \in SeqsUpTo(CsvRows, MaxRows)
  /\ pc = IF rows_arg = <<>> THEN "load" ELSE "load_file"
  /\ sorted_transactions = <<>>
  /\ cursor = 1
  /\ verified = FALSE
  /\ journal_log = <<>>
  /\ rows_result = FALSE
  /\ first_run = NoRun
  /\ today = Min(RunDays)
  /\ up_bank_transactions = <<>>
  /\ match_call = NoCall
  /\ NoSyncFiles
  /\ NoMerge

LoadRow ==
  /\ pc = "load_file"
  /\ raw_transactions' =
       IF rows_arg[cursor].cols >= 3
       THEN load_row("credit_card", rows_arg[cursor])
       ELSE raw_transactions
  /\ cursor' = cursor + 1
  /\ pc' = IF cursor = Len(rows_arg) THEN "load" ELSE "load_file"
  /\ UNCHANGED <<sync_vars, merge_vars, match_call, up_bank_transactions, accounts,
                 processed_transactions, unified_transactions, account_balances,
                 sorted_transactions, verified, journal_log, rows_arg, rows_result,
                 first_run, today>>

NextLoad == LoadRow

SpecLoad == InitLoad /\ [][NextLoad]_vars

(***************************************************************************)
(* C12: for any sequence of CSV rows, a row whose amount parses to 0       *)
(* (non-numeric amount text included) is never appended to the raw pool,   *)
(* and the rows after it are still loaded: the pool is, in order, the rows *)
(* read so far that have three columns and a non-zero amount.              *)
(***************************************************************************)
RowKept(row) == row.cols >= 3 /\ parse_amount(row.amount) # 0

C12_ZeroRowsSkipped ==
  LET kept == SelectSeq(SubSeq(rows_arg, 1, cursor - 1), RowKept)
  IN /\ Len(raw_transactions) = Len(kept)
     /\ \A k \in 1..Len(raw_transactions) :
          /\ raw_transactions[k].amount # 0
          /\ raw_transactions[k].amount = parse_amount(kept[k].amount)
          /\ raw_transactions[k].date.text = kept[k].date

\* a file read to its end whose first row has a non-numeric amount and whose
\* second row was loaded
C12_Witness ==
  /\ pc = "load"
  /\ Len(rows_arg) = 2
  /\ rows_arg[1].cols = 3
  /\ rows_arg[1].amount.form = "garbage"
  /\ Len(raw_transactions) = 1
  /\ raw_transactions[1].date.text = rows_arg[2].date

(***************************************************************************)
(* The exporter called on records handed in from outside, as the unit      *)
(* tests of tests/test_exporter.py and tests/test_transaction_processor.py *)
(* do.  Amounts: 100.00, 45.00, 200.00, 50.00.                             *)
(***************************************************************************)
ExportEntries ==
  {<<[account |-> "debit", amount |-> 20000, type |-> "DEBIT"],
     [account |-> "income", amount |-> 20000, type |-> "CREDIT"]>>,
   <<[account |-> "expense", amount |-> 9000, type |-> "DEBIT"],
     [account |-> "credit_card", amount |-> 9000, type |-> "CREDIT"]>>,
   <<[account |-> "credit_card", amount |-> 40000, type |-> "DEBIT"],
     [account |-> "saver", amount |-> 40000, type |-> "CREDIT"]>>,
   <<[account |-> "credit_card", amount |-> 40000, type |-> "DEBIT"],
     [account |-> "transfer", amount |-> 40000, type |-> "CREDIT"]>>,
   <<[account |-> "transfer", amount |-> 40000, type |-> "DEBIT"],
     [account |-> "debit", amount |-> 40000, type |-> "CREDIT"]>>,
   <<[account |-> "expense", amount |-> 10000, type |-> "DEBIT"],
     [account |-> "income", amount |-> 10000, type |-> "CREDIT"]>>,
   <<[account |-> "credit_card", amount |-> 40000, type |-> "DEBIT"],
     [account |-> "transfer", amount |-> 20000, type |-> "CREDIT"],
     [account |-> "debit", amount |-> 20000, type |-> "CREDIT"]>>,
   <<>>}

InitExport ==
  /\ accounts \in Registries
  /\ raw_transactions = <<>>
  /\ processed_transactions = <<>>
  /\ \E fed \in SeqsUpTo(ExportEntries, MaxExport) :
       unified_transactions =
         [k \in 1..Len(fed) |->
            [id |-> k,
             date |-> <<2023, 1, 1>>,
             description |-> "WOOLWORTHS",
             category |-> "groceries",
             entries |-> fed[k],
             balances |-> [a \in accounts |-> 0]]]
  /\ account_balances = [a \in accounts |-> 0]
  /\ pc = "verified"
  /\ sorted_transactions = <<>>
  /\ cursor = 0
  /\ verified = FALSE
  /\ journal_log = <<>>
  /\ rows_arg = <<>>
  /\ rows_result = FALSE
  /\ first_run = NoRun
  /\ today = Min(RunDays)
  /\ up_bank_transactions = <<>>
  /\ match_call = NoCall
  /\ NoSyncFiles
  /\ NoMerge

NextExport == Export

SpecExport == InitExport /\ [][NextExport]_vars

\* the entries of a record that are on real accounts, in the record's order
RealEntries(transaction) ==
  SelectSeq(transaction.entries, LAMBDA entry : entry.account \in RealAccounts)

HasRealEntry(transaction) == RealEntries(transaction) # <<>>

\* the unified record an exported transaction was made from
RecordOf(up_transaction) ==
  CHOOSE transaction \in {unified_transactions[k] : k \in 1..Len(unified_transactions)} :
    transaction.id = up_transaction.id

(***************************************************************************)
(* C13: the exporter emits exactly one transaction, carrying the record's  *)
(* id and in input order, for each input record that has at least one      *)
(* entry on a real account, and nothing for a record with no such entry.   *)
(***************************************************************************)
C13_OnePerRealRecord ==
  pc = "exported" =>
    LET kept == SelectSeq(unified_transactions, HasRealEntry)
    IN /\ Len(up_bank_transactions) = Len(kept)
       /\ \A j \in 1..Len(kept) : up_bank_transactions[j].id = kept[j].id

\* two records handed in, the first without a real account, the second exported
C13_Witness ==
  /\ pc = "exported"
  /\ Len(unified_transactions) = 2
  /\ ~HasRealEntry(unified_transactions[1])
  /\ unified_transactions[1].entries # <<>>
  /\ HasRealEntry(unified_transactions[2])
  /\ Len(up_bank_transactions) = 1

(***************************************************************************)
(* C14: when a record has two legs on two distinct real accounts (DEBIT    *)
(* credit_card / CREDIT saver) the exported transaction carries            *)
(* transferAccount set to the external id of the second real account;      *)
(* when only one leg is on a real account, transferAccount is absent.      *)
(***************************************************************************)
C14_TransferAccountLinked ==
  pc = "exported" =>
    \A j \in 1..Len(up_bank_transactions) :
      LET legs == RealEntries(RecordOf(up_bank_transactions[j]))
      IN /\ (Len(legs) = 2 /\ legs[1].account # legs[2].account) =>
              up_bank_transactions[j].transferAccount = AccountId[legs[2].account]
         /\ Len(legs) = 1 => up_bank_transactions[j].transferAccount = "None"

(***************************************************************************)
(* C15: the amount of each exported transaction is the signed amount of    *)
(* the primary leg: positive for a DEBIT on an ASSET account or a CREDIT   *)
(* on a LIABILITY account, negative for a CREDIT on an ASSET account or a  *)
(* DEBIT on a LIABILITY account; value and valueInBaseUnits carry that     *)
(* sign.                                                                   *)
(***************************************************************************)
SignedPrimaryLeg(transaction) ==
  LET leg == RealEntries(transaction)[1]
      positive == \/ AccountType[leg.account] = "ASSET" /\ leg.type = "DEBIT"
                  \/ AccountType[leg.account] = "LIABILITY" /\ leg.type = "CREDIT"
  IN IF positive THEN leg.amount ELSE -leg.amount

C15_SignedAmount ==
  pc = "exported" =>
    \A j \in 1..Len(up_bank_transactions) :
      LET signed == SignedPrimaryLeg(RecordOf(up_bank_transactions[j]))
      IN /\ up_bank_transactions[j].value = signed
         /\ (up_bank_transactions[j].valueInBaseUnits < 0) = (signed < 0)

(***************************************************************************)
(* C16: in the transfer scenario (A: saver -200.00 on 2024-03-01 with      *)
(* reference xx5784; B: credit_card +200.00 on 2024-03-02; both transfers) *)
(* A is journaled first as DEBIT credit_card 200 / CREDIT saver 200        *)
(* through reference resolution; B's counterparty matching then finds no   *)
(* candidate and B is journaled as DEBIT credit_card 200 / CREDIT transfer *)
(* 200; two records are emitted and no raw transaction is consumed as a    *)
(* counterpart.  The two rows may lie in the pool in either order.         *)
(***************************************************************************)
TransferRowA(tx) == IsRow(tx, "saver", <<1, 3, 2024>>, -40000, "TRANSFER TO xx5784")

TransferRowB(tx) == IsRow(tx, "credit_card", <<2, 3, 2024>>, 40000, "BPAY")

TransferPool ==
  /\ accounts = FullRegistry
  /\ Len(raw_transactions) = 2
  /\ \E a, b \in 1..2 : TransferRowA(raw_transactions[a]) /\ TransferRowB(raw_transactions[b])

C16_TransferJournal ==
  (TransferPool /\ Journaled) =>
    /\ Len(processed_transactions) = 2
    /\ TransferRowA(raw_transactions[journal_log[1].src])
    /\ processed_transactions[1].entries =
         <<[account |-> "credit_card", amount |-> 40000, type |-> "DEBIT"],
           [account |-> "saver", amount |-> 40000, type |-> "CREDIT"]>>
    /\ TransferRowB(raw_transactions[journal_log[2].src])
    /\ processed_transactions[2].entries =
         <<[account |-> "credit_card", amount |-> 40000, type |-> "DEBIT"],
           [account |-> "transfer", amount |-> 40000, type |-> "CREDIT"]>>
    /\ Consumed = {}

\* the journal of the scenario is built, B lying before A in the pool
C16_Witness ==
  /\ TransferPool
  /\ TransferRowB(raw_transactions[1])
  /\ pc = "processed"

(***************************************************************************)
(* C17: a raw transaction not resolved by counterparty matching is         *)
(* journaled as: LIABILITY owner, amount < 0: DEBIT expense / CREDIT owner *)
(* (also when it is a transfer); LIABILITY owner, amount >= 0, not a       *)
(* transfer: DEBIT owner / CREDIT transfer bucket; ASSET owner, amount     *)
(* < 0: CREDIT owner and DEBIT on the resolved reference account if it is  *)
(* a transfer and the reference resolves, on the transfer bucket if it is  *)
(* a transfer and it does not, on expense otherwise; ASSET owner, amount   *)
(* >= 0: DEBIT owner and CREDIT on the resolved reference account, else    *)
(* the transfer bucket, if it is a transfer, on income otherwise.  ASSET   *)
(* owners never use counterparty matching.                                 *)
(***************************************************************************)
\* where a transfer leg goes when no counterpart is matched
ResolvedOrBucket(tx) ==
  IF find_account_by_reference(tx.account_reference) # "None"
  THEN find_account_by_reference(tx.account_reference)
  ELSE "transfer"

LegAccounts(k) ==
  <<processed_transactions[k].entries[1].account, processed_transactions[k].entries[2].account>>

C17_UnmatchedRecords ==
  \A k \in 1..Len(processed_transactions) :
    LET tx == raw_transactions[journal_log[k].src]
        owner == tx.account
        owner_type == TypeOf(accounts, owner)
    IN /\ owner_type = "ASSET" => journal_log[k].matched = 0
       /\ journal_log[k].matched = 0 =>
            /\ (owner_type = "LIABILITY" /\ tx.amount < 0) =>
                 LegAccounts(k) = <<"expense", owner>>
            /\ (owner_type = "LIABILITY" /\ tx.amount >= 0 /\ ~tx.is_transfer) =>
                 LegAccounts(k) = <<owner, "transfer">>
            /\ (owner_type = "ASSET" /\ tx.amount < 0) =>
                 LegAccounts(k) =
                   <<IF tx.is_transfer THEN ResolvedOrBucket(tx) ELSE "expense", owner>>
            /\ (owner_type = "ASSET" /\ tx.amount >= 0) =>
                 LegAccounts(k) =
                   <<owner, IF tx.is_transfer THEN ResolvedOrBucket(tx) ELSE "income">>

\* an incoming transfer on an asset account was journaled onto the transfer
\* bucket while a credit-card row of the same day and amount lay unprocessed
C17_Witness ==
  /\ pc = "processed"
  /\ Len(raw_transactions) = 2
  /\ IsRow(raw_transactions[1], "saver", <<1, 3, 2024>>, 40000, "BPAY")
  /\ IsRow(raw_transactions[2], "credit_card", <<1, 3, 2024>>, -40000, "WOOLWORTHS")
  /\ journal_log[1].src = 1
  /\ LegAccounts(1) = <<"saver", "transfer">>

(***************************************************************************)
(* Counterparty matching: a pool of one credit-card payment (+200.00 on    *)
(* 2024-03-03, a transfer) among rows of other days and amounts, on which  *)
(* find_matching_transfer is called directly or the journal is built.      *)
(***************************************************************************)
\* 29/02, 01/03, 03/03, 05/03 and 06/03 of 2024: 3 and 2 days before the
\* payment, its own day, 2 and 3 days after
MatchDates == {<<29, 2, 2024>>, <<1, 3, 2024>>, <<3, 3, 2024>>, <<5, 3, 2024>>, <<6, 3, 2024>>}

\* "-200.00", "-200.005", "-200.01"
MatchAmounts == {[form |-> "num", value |-> -40000], [form |-> "num", value |-> -40001],
                 [form |-> "num", value |-> -40002]}

PaymentRow ==
  [date |-> <<3, 3, 2024>>, amount |-> [form |-> "num", value |-> 40000],
   description |-> "BPAY"]

MatchRows ==
  [a \in {"credit_card", "saver"} |->
     IF a = "credit_card"
     THEN {PaymentRow, [PaymentRow EXCEPT !.amount.value = -40000]}
     ELSE [date : MatchDates, amount : MatchAmounts, description : {"WOOLWORTHS"}]]

LoadMatch ==
  /\ pc = "load"
  /\ Len(raw_transactions) < MaxMatchPool
  /\ \E account_type \in DOMAIN MatchRows :
       \E row \in MatchRows[account_type] :
         raw_transactions' = load_row(account_type, row)
  /\ UNCHANGED <<sync_vars, merge_vars, match_call, up_bank_transactions, accounts,
                 processed_transactions, unified_transactions, account_balances, pc,
                 sorted_transactions, cursor, verified, journal_log, rows_arg,
                 rows_result, first_run, today>>

\* find_matching_transfer(transaction, transaction['amount']), called the way
\* _handle_transfer_credit calls it, on a pool nothing of which is journaled
FindMatch ==
  /\ pc = "load"
  /\ \E i \in 1..Len(raw_transactions) :
       /\ TypeOf(accounts, raw_transactions[i].account) = "LIABILITY"
       /\ raw_transactions[i].amount >= 0
       /\ raw_transactions[i].is_transfer
       /\ match_call' =
            [transaction |-> i,
             returned |-> find_matching_transfer(raw_transactions, i,
                                                 raw_transactions[i].amount)]
  /\ pc' = "match_done"
  /\ UNCHANGED <<sync_vars, merge_vars, up_bank_transactions, accounts, raw_transactions,
                 processed_transactions, unified_transactions, account_balances,
                 sorted_transactions, cursor, verified, journal_log, rows_arg,
                 rows_result, first_run, today>>

InitMatch == Constructed(FullRegistry)

NextMatch == LoadMatch \/ FindMatch \/ ProcessBegin \/ ProcessStep

SpecMatch == InitMatch /\ [][NextMatch]_vars

\* the criteria of a counterpart other than the amount and the date window
OtherAccountOppositeSign(i, j) ==
  /\ ~raw_transactions[j].processed
  /\ raw_transactions[j].account # raw_transactions[i].account
  /\ (raw_transactions[j].amount < 0) = (raw_transactions[i].amount > 0)

DaysApart(i, j) == Abs(raw_transactions[j].date.day - raw_transactions[i].date.day)

AmountsApart(i, j) ==
  Abs(Abs(raw_transactions[j].amount) - Abs(raw_transactions[i].amount))

(***************************************************************************)
(* C18: counterparty matching accepts a candidate whose absolute amount    *)
(* differs from the seeking transaction's by less than 0.01 (200.00        *)
(* against 200.005) and rejects one that differs by 0.01 or more, the      *)
(* other criteria (different account, date window, opposite sign) being    *)
(* met.                                                                    *)
(***************************************************************************)
C18_AmountWithinTolerance ==
  pc = "match_done" =>
    LET i == match_call.transaction
        within == {j \in 1..Len(raw_transactions) :
                     /\ OtherAccountOppositeSign(i, j)
                     /\ DaysApart(i, j) <= TransferWindowDays
                     /\ AmountsApart(i, j) < Tolerance}
    IN IF within = {} THEN match_call.returned = 0 ELSE match_call.returned \in within

HandledBefore(k) ==
  {journal_log[l].src : l \in 1..(k - 1)} \cup {journal_log[l].matched : l \in 1..(k - 1)}

\* the rows that qualified as counterpart when the k-th record was built
CandidatesAt(k) ==
  LET i == journal_log[k].src
  IN {j \in 1..Len(raw_transactions) \ HandledBefore(k) :
        /\ raw_transactions[j].account # raw_transactions[i].account
        /\ (raw_transactions[j].amount < 0) = (raw_transactions[i].amount > 0)
        /\ AmountsApart(i, j) = 0
        /\ DaysApart(i, j) <= TransferWindowDays}

IsPayment(tx) ==
  TypeOf(accounts, tx.account) = "LIABILITY" /\ tx.amount >= 0 /\ tx.is_transfer

SinglePayment ==
  Cardinality({i \in 1..Len(raw_transactions) : IsPayment(raw_transactions[i])}) = 1

C21_UnparsedLast ==
  /\ \A k, l \in 1..Len(journal_log) :
       LET a == raw_transactions[journal_log[k].src]
           b == raw_transactions[journal_log[l].src]
       IN k < l =>
            /\ ~(~a.date.isdt /\ b.date.isdt)
            /\ (~a.date.isdt /\ ~b.date.isdt) => journal_log[k].src < journal_log[l].src
  /\ \A k, l \in 1..Len(unified_transactions) :
       k < l =>
         ~(/\ unified_transactions[k].date = <<0, 0, 0>>
           /\ unified_transactions[l].date # <<0, 0, 0>>)


\* ---- the journal pass and the replay pass on pools of dated rows ----

UpdateRows ==
  [date : {<<1, 3, 2024>>, <<2, 3, 2024>>},
   amount : {[form |-> "num", value |-> -40000], [form |-> "num", value |-> 40000]},
   description : {"WOOLWORTHS", "TRANSFER TO xx5784"}]

LoadUpdate == LoadFrom(LoadedAccounts, UpdateRows)

InitUpdate == Constructed(FullRegistry)

NextUpdate == LoadUpdate \/ ProcessBegin \/ ProcessStep \/ UpdateBegin \/ UpdateStep

SpecUpdate == InitUpdate /\ [][NextUpdate]_vars

\* C22: process_raw_transactions journals the unconsumed raw transactions in
\* ascending date order and update_account_balances replays the journal records
\* in ascending date order; in both passes records with equal dates keep their
\* original insertion order (pool order for the journal, journal order for the
\* replay).  Stated for records whose date parsed.
C22_AscendingStable ==
  /\ \A k, l \in 1..Len(journal_log) :
       LET a == raw_transactions[journal_log[k].src]
           b == raw_transactions[journal_log[l].src]
       IN (k < l /\ a.date.isdt /\ b.date.isdt) =>
            /\ a.date.day <= b.date.day
            /\ a.date.day = b.date.day => journal_log[k].src < journal_log[l].src
  /\ \A k, l \in 1..Len(unified_transactions) :
       LET a == processed_transactions[unified_transactions[k].id]
           b == processed_transactions[unified_transactions[l].id]
       IN (k < l /\ a.date.isdt /\ b.date.isdt) =>
            /\ a.date.day <= b.date.day
            /\ a.date.day = b.date.day =>
                 unified_transactions[k].id < unified_transactions[l].id

\* a pool loaded against date order is journaled and replayed by date
C22_Witness ==
  /\ pc = "updated"
  /\ Len(journal_log) = 2
  /\ Len(unified_transactions) = 2
  /\ journal_log[1].src = 2
  /\ raw_transactions[2].date.day < raw_transactions[1].date.day


\* +1 where an entry of this type adds to an account of this type, -1 where it subtracts
EntrySign(account, entry_type) ==
  IF (AccountType[account] \in {"ASSET", "EXPENSE"}) <=> (entry_type = "DEBIT")
  THEN 1 ELSE -1

RECURSIVE SignedEntries(_, _)
SignedEntries(entries, account) ==
  IF entries = <<>> THEN 0
  ELSE (IF Head(entries).account = account
        THEN EntrySign(account, Head(entries).type) * Head(entries).amount
        ELSE 0)
       + SignedEntries(Tail(entries), account)

\* signed sum of the entries of the given records that name the account
RECURSIVE SignedSum(_, _)
SignedSum(records, account) ==
  IF records = <<>> THEN 0
  ELSE SignedEntries(Head(records).entries, account) + SignedSum(Tail(records), account)

\* C23: update_account_balances starts every registered account at 0 and adds
\* the amount of a DEBIT on ASSET/EXPENSE or a CREDIT on LIABILITY/EQUITY/INCOME,
\* subtracts it for the opposite cases, so that when it returns each registered
\* account's balance is the signed sum of the journal entries naming it.
C23_SignedSums ==
  /\ (pc = "update" /\ cursor = 1) =>
       account_balances = [a \in accounts |-> 0]
  /\ Replayed =>
       /\ DOMAIN account_balances = accounts
       /\ \A a \in accounts :
            account_balances[a] = SignedSum(processed_transactions, a)

\* a replay of two records that left one account above and one below zero
C23_Witness ==
  /\ pc = "updated"
  /\ Len(processed_transactions) = 2
  /\ \E a, b \in accounts : account_balances[a] > 0 /\ account_balances[b] < 0


\* the balances after applying the first n records of the replay order to zero
\* balances, given that the snapshot of record n - 1 is the balances after n - 1
BalancesAfter(n) ==
  apply_entries(accounts,
                IF n = 1 THEN [a \in accounts |-> 0]
                ELSE unified_transactions[n - 1].balances,
                unified_transactions[n].entries)

\* C24: the balance snapshot attached to the i-th replayed record equals the
\* balances after applying exactly the first i records in replay order, in every
\* state, so also after later records were applied (the snapshot is a copy, not
\* a reference to the live balances map).
C24_SnapshotIsPrefix ==
  \A i \in 1..Len(unified_transactions) :
    unified_transactions[i].balances = BalancesAfter(i)

\* no step changes a snapshot that is already attached to a record
SnapshotsFrozen ==
  [][\A i \in 1..Len(unified_transactions) :
       /\ i <= Len(unified_transactions')
       /\ unified_transactions'[i].balances = unified_transactions[i].balances]_vars

\* two records replayed, the second changed the live balances after the first snapshot
C24_Witness ==
  /\ pc = "updated"
  /\ Len(unified_transactions) = 2
  /\ unified_transactions[1].balances # unified_transactions[2].balances
  /\ account_balances = unified_transactions[2].balances


\* ---- update_account_balances called a second time on the same journal ----

\* the second call begins like the first: balances reset, journal sorted; the
\* list of unified records is not reset and keeps the records of the first call
UpdateAgain ==
  /\ pc = "updated"
  /\ ~first_run.done
  /\ first_run' = [done |-> TRUE,
                   journal |-> JournalOf(processed_transactions),
                   balances |-> account_balances]
  /\ account_balances' = [a \in accounts |-> 0]
  /\ \E now \in RunDays :
       /\ now >= today
       /\ today' = now
       /\ sorted_transactions' = sorted_by_date(processed_transactions, now)
  /\ cursor' = 1
  /\ pc' = IF processed_transactions = <<>> THEN "updated" ELSE "update"
  /\ UNCHANGED <<sync_vars, merge_vars, match_call, up_bank_transactions, accounts,
                 raw_transactions, processed_transactions, unified_transactions,
                 verified, journal_log, rows_arg, rows_result>>

InitReplay == Constructed(FullRegistry)

NextReplay ==
  Load \/ ProcessBegin \/ ProcessStep \/ UpdateBegin \/ UpdateStep \/ UpdateAgain

SpecReplay == InitReplay /\ [][NextReplay]_vars

\* C25: calling update_account_balances a second time on the same journal
\* leaves account_balances equal to the values after the first call, and the
\* list of unified records still holds exactly one record per journal record.
C25_SecondUpdateIdempotent ==
  (pc = "updated" /\ first_run.done) =>
    /\ account_balances = first_run.balances
    /\ Len(unified_transactions) = Len(processed_transactions)


\* the raw transaction a journal record was built from
OwnerOf(id) == raw_transactions[journal_log[id].src].account

\* C26: for every journal record that is exported, the account of the exported
\* transaction is the real account that owned the raw transaction from which
\* the record was built, also for an ASSET outflow whose transfer destination
\* was resolved to another real account.
C26_ExportedAccountIsOwner ==
  pc = "exported" =>
    \A k \in 1..Len(up_bank_transactions) :
      up_bank_transactions[k].account = AccountId[OwnerOf(up_bank_transactions[k].id)]


\* ---- transfers whose description names an account by its reference ----

ReferenceDescriptions == {"TRANSFER TO xx5784", "TRANSFER TO xx2467", "TRANSFER TO xx0000"}

ReferenceRows ==
  [date : {<<1, 3, 2024>>, <<2, 3, 2024>>},
   amount : {[form |-> "num", value |-> -40000], [form |-> "num", value |-> 40000]},
   description : ReferenceDescriptions]

LoadReference == LoadFrom({"saver", "credit_card", "debit"}, ReferenceRows)

InitReference == Constructed(FullRegistry)

NextReference == LoadReference \/ ProcessBegin \/ ProcessStep

SpecReference == InitReference /\ [][NextReference]_vars

\* C27: in every journal record the DEBIT entry and the CREDIT entry name two
\* different accounts, for every owning account and every account_reference,
\* including a reference that resolves to the owning account itself.
C27_LegsOnDifferentAccounts ==
  \A k \in 1..Len(processed_transactions) :
    LET entries == processed_transactions[k].entries
    IN \A d, c \in 1..Len(entries) :
         (entries[d].type = "DEBIT" /\ entries[c].type = "CREDIT") =>
           entries[d].account # entries[c].account


(***************************************************************************)
(* up/transaction_sync.py: TransactionSync.  A transaction is its id, its  *)
(* attributes.createdAt (a day number) and the id of its account           *)
(* (relationships.account.data.id).                                        *)
(***************************************************************************)
\* transactions of one list_transactions response
MaxResponse == 2

\* the transactions the Up Bank API can hand out
BankTransactions ==
  {[id |-> "t1", createdAt |-> 426, account |-> "123"],
   [id |-> "t2", createdAt |-> 427, account |-> "123"],
   [id |-> "t3", createdAt |-> 427, account |-> "102"]}

\* what list_accounts can return
BankAccounts ==
  {<<[id |-> "123", displayName |-> "Credit Card"]>>,
   <<[id |-> "123", displayName |-> "Credit Card"],
     [id |-> "102", displayName |-> "Savings Account"]>>}

Ids(transactions) == {transactions[k].id : k \in 1..Len(transactions)}

\* list.sort(key=..., reverse=True): descending by key, equal keys keep their order
RECURSIVE InsertDescending(_, _, _)
InsertDescending(sorted, i, keys) ==
  IF sorted = <<>> THEN <<i>>
  ELSE LET last == sorted[Len(sorted)]
       IN IF keys[last] >= keys[i]
          THEN Append(sorted, i)
          ELSE Append(InsertDescending(SubSeq(sorted, 1, Len(sorted) - 1), i, keys), last)

RECURSIVE DescendingUpTo(_, _)
DescendingUpTo(keys, n) ==
  IF n = 0 THEN <<>>
  ELSE InsertDescending(DescendingUpTo(keys, n - 1), n, keys)

sort_reverse(list, keys) ==
  LET order == DescendingUpTo(keys, Len(list))
  IN [k \in 1..Len(list) |-> list[order[k]]]

sort_by_createdAt(transactions) ==
  sort_reverse(transactions, [k \in 1..Len(transactions) |-> transactions[k].createdAt])

\* client.list_transactions(since): the pages the API returns, an unknown
\* selection of the bank's transactions created at or after since (0: None)
Responses == SeqsUpTo(BankTransactions, MaxResponse)

list_transactions(since) ==
  {response \in Responses :
     \A k \in 1..Len(response) : response[k].createdAt >= since}

\* mutant: every saved transaction is appended to the history
append_unseen_unchecked(all_transactions, transactions_to_save) ==
  all_transactions \o transactions_to_save

\* the loop over transactions_to_save that appends the ids the history lacks
RECURSIVE append_unseen(_, _)
append_unseen(all_transactions, transactions_to_save) ==
  IF transactions_to_save = <<>> THEN all_transactions
  ELSE LET transaction == Head(transactions_to_save)
       IN append_unseen(IF transaction.id \notin Ids(all_transactions)
                        THEN Append(all_transactions, transaction)
                        ELSE all_transactions,
                        Tail(transactions_to_save))

MaxOf(S) == CHOOSE x \in S : \A y \in S : x >= y

\* sync_transactions after a response with at least one transaction: the three
\* files it writes
sync_transactions(existing_transactions, all_transactions, full_sync, new_transactions) ==
  LET most_recent_date ==
        MaxOf({new_transactions[k].createdAt : k \in 1..Len(new_transactions)})
      existing_ids == Ids(existing_transactions)
      new_unique_transactions ==
        SelectSeq(new_transactions, LAMBDA tx : tx.id \notin existing_ids)
      transactions_to_save ==
        IF ~full_sync
        THEN sort_by_createdAt(existing_transactions \o new_unique_transactions)
        ELSE new_transactions
  IN [transactions |-> transactions_to_save,
      all_transactions |->
        sort_by_createdAt(append_unseen(all_transactions, transactions_to_save)),
      last_synced |-> most_recent_date]

\* sync_transactions(full_sync) with the outcome of the API request: the request
\* fails, returns nothing, or returns new_transactions
SyncTransactionsCall(full_sync) ==
  LET since == IF full_sync THEN 0 ELSE sync_state_file
  IN \/ UNCHANGED <<transactions_file, all_transactions_file, sync_state_file>>
     \/ \E new_transactions \in list_transactions(since) \ {<<>>} :
          LET saved == sync_transactions(transactions_file, all_transactions_file,
                                         full_sync, new_transactions)
          IN /\ transactions_file' = saved.transactions
             /\ all_transactions_file' = saved.all_transactions
             /\ sync_state_file' = saved.last_synced

\* a call of sync_transactions on its own
SyncTransactions ==
  /\ \E full_sync \in BOOLEAN : SyncTransactionsCall(full_sync)
  /\ run_sync_returned' = "none"
  /\ UNCHANGED <<accounts_file, enriched_transactions_file,
                 enriched_all_transactions_file>>
  /\ UNCHANGED <<engine_vars, merge_vars>>

is_last_sync_valid == sync_state_file # 0 /\ transactions_file # <<>>

\* sync_accounts: the accounts file is written unless the request fails
SyncAccountsCall ==
  \/ UNCHANGED accounts_file
  \/ \E accounts_data \in BankAccounts : accounts_file' = accounts_data

\* the accountDetails the lookup gives a transaction, "None" when it gives none
account_details(account_list, transaction) ==
  IF \E a \in 1..Len(account_list) : account_list[a].id = transaction.account
  THEN LET a == CHOOSE a \in 1..Len(account_list) :
                  /\ account_list[a].id = transaction.account
                  /\ \A b \in a + 1..Len(account_list) :
                       account_list[b].id # transaction.account
       IN account_list[a].displayName
  ELSE "None"

enriched(account_list, transactions) ==
  [k \in 1..Len(transactions) |->
     [id |-> transactions[k].id,
      createdAt |-> transactions[k].createdAt,
      account |-> transactions[k].account,
      accountDetails |-> account_details(account_list, transactions[k])]]

\* enrich_transactions_with_account_data, reading the files just written
EnrichCall ==
  IF accounts_file' = <<>> \/ transactions_file' = <<>>
  THEN UNCHANGED <<enriched_transactions_file, enriched_all_transactions_file>>
  ELSE /\ enriched_transactions_file' =
            [exists |-> TRUE,
             transactions |-> enriched(accounts_file', transactions_file')]
       /\ enriched_all_transactions_file' =
            IF all_transactions_file' # <<>>
            THEN [exists |-> TRUE,
                  transactions |-> enriched(accounts_file', all_transactions_file')]
            ELSE enriched_all_transactions_file

\* run_sync: accounts, transactions, and the enrichment when no enriched file exists
RunSync ==
  /\ SyncAccountsCall
  /\ SyncTransactionsCall(~is_last_sync_valid)
  /\ IF ~enriched_transactions_file.exists
     THEN EnrichCall
     ELSE UNCHANGED <<enriched_transactions_file, enriched_all_transactions_file>>
  /\ run_sync_returned' = "True"
  /\ UNCHANGED <<engine_vars, merge_vars>>

InitSync == Constructed(FullRegistry)

\* run_sync, run after run
NextSync == RunSync

SpecSync == InitSync /\ [][NextSync]_vars

\* sync_transactions called on its own, incremental or full, call after call
NextHistory == SyncTransactions

SpecHistory == InitSync /\ [][NextHistory]_vars

\* C28: after every successful run_sync, each transaction stored in
\* transactions.json whose account id is among the synced accounts appears in
\* enriched_transactions.json with accountDetails attached; this also holds on
\* runs after the first one, when new transactions have been synced.
C28_StoredAreEnriched ==
  run_sync_returned = "True" =>
    \A k \in 1..Len(transactions_file) :
      transactions_file[k].account \in Ids(accounts_file) =>
        \E e \in 1..Len(enriched_transactions_file.transactions) :
          /\ enriched_transactions_file.transactions[e].id = transactions_file[k].id
          /\ enriched_transactions_file.transactions[e].accountDetails # "None"


NoDuplicateIds(transactions) ==
  \A i, j \in 1..Len(transactions) :
    i # j => transactions[i].id # transactions[j].id

\* C29: across any sequence of sync_transactions calls (incremental or full,
\* succeeding or failing on the API request), the all-time history
\* all_transactions.json, when it holds no id twice, never loses a transaction
\* id it already held and never comes to hold the same id twice.
C29_HistoryKeepsIds ==
  [][NoDuplicateIds(all_transactions_file) =>
       /\ Ids(all_transactions_file) \subseteq Ids(all_transactions_file')
       /\ NoDuplicateIds(all_transactions_file')]_vars

\* the history holds every transaction of the bank once, while transactions.json
\* was replaced by a full sync whose response repeated one transaction
C29_Witness ==
  /\ Len(all_transactions_file) = 3
  /\ Len(transactions_file) = 2
  /\ transactions_file[1].id = transactions_file[2].id


(***************************************************************************)
(* merge/commbank_to_up_json.py: merge_transactions.  A transaction is its *)
(* id, attributes.settledAt as <<day, time of day>> (<<0, 0>>: missing,    *)
(* empty or null), attributes.amount.value, attributes.category and        *)
(* accountDetails ("None": the key is absent).                             *)
(***************************************************************************)
\* transactions of each argument of merge_transactions
MaxMerge == 2

UpbankPool ==
  {[id |-> "u1", settledAt |-> <<426, 1>>, value |-> 9000, category |-> "None",
    accountDetails |-> "Spending"],
   [id |-> "u2", settledAt |-> <<426, 2>>, value |-> 9000, category |-> "None",
    accountDetails |-> "Spending"],
   [id |-> "u3", settledAt |-> <<0, 0>>, value |-> 9000, category |-> "None",
    accountDetails |-> "Spending"]}

OurPool ==
  {[id |-> "o1", settledAt |-> <<426, 0>>, value |-> 9000, category |-> "groceries",
    accountDetails |-> "Credit Card"],
   [id |-> "o2", settledAt |-> <<426, 0>>, value |-> 9000, category |-> "groceries",
    accountDetails |-> "Credit Card"],
   [id |-> "o3", settledAt |-> <<427, 0>>, value |-> 40000, category |-> "transfers",
    accountDetails |-> "Savings Account"],
   [id |-> "o4", settledAt |-> <<0, 0>>, value |-> 9000, category |-> "groceries",
    accountDetails |-> "Credit Card"]}

\* the lists of at most MaxMerge transactions of a file, each at most once
JsonLists(pool) ==
  {list \in SeqsUpTo(pool, MaxMerge) :
     \A i, j \in 1..Len(list) : i # j => list[i] # list[j]}

\* `if not settled_at`
has_settledAt(tx) == tx.settledAt # <<0, 0>>

\* f"{tx_date}_{tx_amount}" with tx_date = settled_at.split('T')[0]
merge_key(tx) == <<tx.settledAt[1], tx.value>>

\* upbank_lookup[key] without the entries popped so far, as indices of upbank_data
upbank_lookup(upbank_data, popped, key) ==
  {j \in 1..Len(upbank_data) :
     /\ j \notin popped
     /\ has_settledAt(upbank_data[j])
     /\ merge_key(upbank_data[j]) = key}

\* up_tx.copy() with the accountDetails and the category of our transaction
merged_tx(up_tx, our_tx) ==
  [up_tx EXCEPT
     !.accountDetails = IF our_tx.accountDetails # "None" THEN our_tx.accountDetails ELSE @,
     !.category = IF our_tx.category # "None" /\ up_tx.category = "None"
                  THEN our_tx.category ELSE @]

\* the loop over our transactions, from the k-th on
RECURSIVE match_ours(_, _, _, _)
match_ours(our_data, upbank_data, k, found) ==
  IF k > Len(our_data) THEN found
  ELSE LET our_tx == our_data[k]
           candidates == IF has_settledAt(our_tx)
                         THEN upbank_lookup(upbank_data, found.popped, merge_key(our_tx))
                         ELSE {}
       IN IF candidates = {}
          THEN match_ours(our_data, upbank_data, k + 1,
                          [found EXCEPT !.unmatched_transactions = Append(@, our_tx)])
          ELSE LET j == Min(candidates)
               IN match_ours(our_data, upbank_data, k + 1,
                             [found EXCEPT
                                !.merged_transactions =
                                   Append(@, merged_tx(upbank_data[j], our_tx)),
                                !.popped = @ \cup {j},
                                !.pairs = @ \cup {<<upbank_data[j].id, our_tx.id>>}])

\* position of the key of upbank_data[j] in the lookup: where the key first occurred
key_position(upbank_data, j) ==
  Min({i \in 1..Len(upbank_data) :
         /\ has_settledAt(upbank_data[i])
         /\ merge_key(upbank_data[i]) = merge_key(upbank_data[j])})

\* what is left in upbank_lookup.values(), key by key in insertion order
RECURSIVE lookup_values(_, _)
lookup_values(upbank_data, left) ==
  IF left = {} THEN <<>>
  ELSE LET j == CHOOSE j \in left :
                  \A i \in left :
                    \/ key_position(upbank_data, j) < key_position(upbank_data, i)
                    \/ /\ key_position(upbank_data, j) = key_position(upbank_data, i)
                       /\ j <= i
       IN <<upbank_data[j]>> \o lookup_values(upbank_data, left \ {j})

\* sort key of attributes.settledAt, the empty string below every date
settledAt_key(tx) == tx.settledAt[1] * 10 + tx.settledAt[2]

merge_transactions(our_data, upbank_data) ==
  LET found == match_ours(our_data, upbank_data, 1,
                          [merged_transactions |-> <<>>, unmatched_transactions |-> <<>>,
                           popped |-> {}, pairs |-> {}])
      left == {j \in 1..Len(upbank_data) :
                 has_settledAt(upbank_data[j]) /\ j \notin found.popped}
      all_transactions == found.merged_transactions
                          \o lookup_values(upbank_data, left)
                          \o found.unmatched_transactions
  IN [data |-> sort_reverse(all_transactions,
                            [k \in 1..Len(all_transactions) |->
                               settledAt_key(all_transactions[k])]),
      pairs |-> found.pairs]

\* main: the two transaction files are read
LoadJson ==
  /\ merged.stage = "start"
  /\ our_transactions' \in JsonLists(OurPool)
  /\ upbank_transactions' \in JsonLists(UpbankPool)
  /\ merged' = [merged EXCEPT !.stage = "loaded"]
  /\ UNCHANGED <<engine_vars, sync_vars>>

\* main: merge_transactions(our_transactions, upbank_transactions)
MergeTransactions ==
  /\ merged.stage = "loaded"
  /\ LET result == merge_transactions(our_transactions, upbank_transactions)
     IN merged' = [stage |-> "merged", data |-> result.data, pairs |-> result.pairs]
  /\ UNCHANGED <<our_transactions, upbank_transactions>>
  /\ UNCHANGED <<engine_vars, sync_vars>>

InitMerge == Constructed(FullRegistry)

NextMerge == LoadJson \/ MergeTransactions

SpecMerge == InitMerge /\ [][NextMerge]_vars

\* how often a transaction id occurs in a list
Occurrences(list, id) == Cardinality({k \in 1..Len(list) : list[k].id = id})

\* C30: merge_transactions loses nothing: every Up Bank input transaction and
\* every one of our transactions is represented in the merged output exactly
\* once (a matched pair as a single merged entry, each Up Bank transaction
\* matched to at most one of ours), so the output size is
\* |Up Bank| + |ours| - |matched pairs|.
C30_MergeLosesNothing ==
  merged.stage = "merged" =>
    /\ \A u \in 1..Len(upbank_transactions) :
         /\ Occurrences(merged.data, upbank_transactions[u].id) = 1
         /\ Cardinality({p \in merged.pairs : p[1] = upbank_transactions[u].id}) <= 1
    /\ \A o \in 1..Len(our_transactions) :
         Occurrences(merged.data, our_transactions[o].id)
         + Cardinality({p \in merged.pairs : p[2] = our_transactions[o].id}) = 1
    /\ Len(merged.data) =
         Len(upbank_transactions) + Len(our_transactions) - Cardinality(merged.pairs)

====
